---- MODULE Spec2Model ----
(***************************************************************************)
(* A model of the StatsBomb dashboard: the validators and tabulators of    *)
(* src/src/data/processor.py, the fetch functions of src/src/data/loader.py*)
(* the chart data shaping of src/src/utils/visualization.py and the script *)
(* body of src/src/app.py.                                                 *)
(*                                                                         *)
(* Encoding of Python values.                                              *)
(*   dict            a function from its keys (strings) to its values;     *)
(*                   the empty dict {} is EmptyDict                        *)
(*   str (a name)    the sequence of its code points, "A" = <<65>>, so that*)
(*                   Python's string order is the lexicographic order      *)
(*   None / NaN      NULL = <<>>; a value that may be null is held as a    *)
(*                   one-element sequence <<v>> (Some(v)), so that {} and  *)
(*                   [] in such a place, Some(EmptyDict), differ from NULL *)
(*   int64 column    four 16-bit limbs, least significant first            *)
(*   DataFrame       [columns |-> set of column names, rows |-> sequence   *)
(*                   of rows], a row being a function from the columns     *)
(*   cached data     the values handed to json.dump and returned by        *)
(*                   json.load are records of one shape (PyNone, PyInt,    *)
(*                   PyStr, PyList, PyDict); a file is the text in it      *)
(***************************************************************************)
EXTENDS Integers, Sequences, FiniteSets, TLC

VARIABLES
    pc,                  \* position of the script run
    exc,                 \* the exception that ended the run and the call that raised it
    session_state,       \* st.session_state: the selection kept across runs
    fetch_cache,         \* st.cache_data: the memoized results of the fetch_* calls
    competitions,        \* raw competition records
    valid_competitions,  \* validate_competition_data(competitions)
    competitions_df,     \* process_competitions(valid_competitions)
    competition_season,  \* value of the competition selector
    matches,             \* raw match records
    valid_matches,       \* validate_match_data(matches)
    matches_df,          \* process_matches(valid_matches)
    match_label,         \* value of the match selector
    events,              \* raw event records
    valid_events,        \* validate_event_data(events)
    events_df,           \* process_events(valid_events)
    team_stats,          \* get_team_stats(events_df)
    player_stats,        \* get_player_stats(events_df)
    selected_event_type, \* the event type selector's value, NULL for 'All'
    timeline_fig,        \* points create_event_timeline hands to the scatter plot
    team_breakdown,      \* rows create_team_event_breakdown hands to the bar chart
    player_breakdown,    \* rows create_player_event_breakdown hands to the bar chart
    heatmap_fig,         \* create_heatmap(events_df, selected_event_type)
    cache_dir,           \* the files of CACHE_DIR: file name -> text
    cache_call           \* the last call of save_to_cache or load_from_cache

vars == <<pc, exc, session_state, fetch_cache, competitions, valid_competitions,
          competitions_df, competition_season, matches, valid_matches, matches_df,
          match_label, events, valid_events, events_df, team_stats, player_stats,
          selected_event_type, timeline_fig, team_breakdown, player_breakdown,
          heatmap_fig, cache_dir, cache_call>>

\* the variables of the on-disk cache
cache_vars == <<cache_dir, cache_call>>

---------------------------------------------------------------------------
(* Bounds of the model *)

\* longest list of raw records a fetch hands to the validators
MaxRecords == 3

---------------------------------------------------------------------------
(* Python values *)

NULL == <<>>

Some(v) == <<v>>

EmptyDict == [k \in {} |-> 0]

\* d.get(key): the value under key, None when the key is absent
DictGet(d, key) == IF key \in DOMAIN d THEN Some(d[key]) ELSE NULL

\* all sequences over S of length 0..n
SeqsUpTo(S, n) == UNION {[1..k -> S] : k \in 0..n}

\* code points
ch_A == <<65>>

ch_B == <<66>>

ch_AB == <<65, 66>>

y2020 == <<50, 48, 50, 48>>

y2021 == <<50, 48, 50, 49>>

---------------------------------------------------------------------------
(* processor.py: validators *)

CompetitionRequired == {"competition_id", "competition_name", "season_id", "season_name"}

MatchRequired == {"match_id", "home_team", "away_team", "home_score", "away_score",
                  "match_date"}

EventRequired == {"id", "type", "minute", "second", "possession", "play_pattern",
                  "team", "player"}

\* all(field in comp for field in required_fields)
HasAllFields(rec, required_fields) == \A field \in required_fields : field \in DOMAIN rec

\* a validator that keeps a record as soon as one required field is present
AnyFieldValidate(records, required_fields) ==
    SelectSeq(records, LAMBDA rec : \E field \in required_fields : field \in DOMAIN rec)

\* the loop shared by the three validators: append the records that pass
ValidateRecords(records, required_fields) ==
    SelectSeq(records, LAMBDA rec : HasAllFields(rec, required_fields))

validate_competition_data(comps) == ValidateRecords(comps, CompetitionRequired)

validate_match_data(ms) == ValidateRecords(ms, MatchRequired)

validate_event_data(evs) == ValidateRecords(evs, EventRequired)

---------------------------------------------------------------------------
(* int64 columns: numpy's wrapping arithmetic on four 16-bit limbs *)

LimbBase == 2^16

SignBit == 2^15

\* the int64 holding a small non-negative Python int
I64(n) == <<n % LimbBase, (n \div LimbBase) % LimbBase, 0, 0>>

\* a * k + carry over the limbs of a, one limb longer than a
RECURSIVE MulLimbs(_, _, _)
MulLimbs(a, k, carry) ==
    IF a = <<>> THEN <<carry % LimbBase>>
    ELSE LET p == Head(a) * k + carry
         IN  <<p % LimbBase>> \o MulLimbs(Tail(a), k, p \div LimbBase)

\* a + b + carry over limbs of equal length, one limb longer than a
RECURSIVE AddLimbs(_, _, _)
AddLimbs(a, b, carry) ==
    IF a = <<>> THEN <<carry>>
    ELSE LET s == Head(a) + Head(b) + carry
         IN  <<s % LimbBase>> \o AddLimbs(Tail(a), Tail(b), s \div LimbBase)

\* int64 * Python int: the low 64 bits of the product
I64Mul(a, k) == SubSeq(MulLimbs(a, k, 0), 1, 4)

\* int64 + int64: the low 64 bits of the sum
I64Add(a, b) == SubSeq(AddLimbs(a, b, 0), 1, 4)

---------------------------------------------------------------------------
(* pandas: DataFrame construction *)

EmptyFrame == [columns |-> {}, rows |-> <<>>]

\* pd.DataFrame(records): the columns are the union of the records' keys, a
\* key a record lacks is NaN in its row
DataFrame(records) ==
    LET cols == UNION {DOMAIN records[i] : i \in 1..Len(records)}
    IN  [columns |-> cols,
         rows    |-> [i \in 1..Len(records) |->
                        [c \in cols |-> IF c \in DOMAIN records[i]
                                        THEN records[i][c] ELSE NULL]]]

\* df[c] = values: the column is added, or replaced when it exists
SetColumn(df, c, values) ==
    [columns |-> df.columns \cup {c},
     rows    |-> [i \in 1..Len(df.rows) |-> (c :> values[i]) @@ df.rows[i]]]

\* what a call returns: the exception it raised ("" if none) and its value
Raised(e) == [exc |-> e, df |-> EmptyFrame]

\* the uncaught exception of a run: its type and the function that raised it
NoException == [type |-> "", raised_by |-> ""]

Uncaught(type, fn) == IF type = "" THEN NoException ELSE [type |-> type, raised_by |-> fn]

Returned(d) == [exc |-> "", df |-> d]

---------------------------------------------------------------------------
(* processor.py: process_events *)

str_Shot == <<83, 104, 111, 116>>

str_Pass == <<80, 97, 115, 115>>

\* the nested object read under a key it does not have
NestedNameWrongKey(cell) == DictGet(cell, "id")

\* lambda x: x.get('name') on a cell of a nested-object column
NestedName(cell) == DictGet(cell, "name")

\* the timestamp without the seconds
TimestampMinutesOnly(minute, second) ==
    IF minute = NULL \/ second = NULL THEN NULL ELSE I64Mul(minute, 60)

\* df['minute'] * 60 + df['second'] on int64 columns, NaN where a cell is NaN
Timestamp(minute, second) ==
    IF minute = NULL \/ second = NULL THEN NULL
    ELSE I64Add(I64Mul(minute, 60), second)

\* lambda x: x.get('shot', {}) if x['event_type'] == 'Shot' else {} on a row:
\* Series.get falls back to the default only when the frame has no shot column
ShotCell(row) ==
    IF row["event_type"] = Some(str_Shot)
    THEN IF "shot" \in DOMAIN row THEN row["shot"] ELSE Some(EmptyDict)
    ELSE Some(EmptyDict)

process_events(evs) ==
    LET df == DataFrame(evs)
        n  == Len(df.rows)
        d1 == SetColumn(df, "event_type", [i \in 1..n |-> NestedName(df.rows[i]["type"])])
        d2 == SetColumn(d1, "team_name", [i \in 1..n |-> NestedName(df.rows[i]["team"])])
        d3 == SetColumn(d2, "player_name", [i \in 1..n |-> NestedName(df.rows[i]["player"])])
        d4 == SetColumn(d3, "timestamp",
                        [i \in 1..n |-> Timestamp(df.rows[i]["minute"], df.rows[i]["second"])])
        d5 == SetColumn(d4, "shot", [i \in 1..n |-> ShotCell(d4.rows[i])])
    IN  IF    "type" \notin df.columns \/ "team" \notin df.columns
           \/ "player" \notin df.columns \/ "minute" \notin df.columns
           \/ "second" \notin df.columns
        THEN Raised("KeyError")
        ELSE IF \E i \in 1..n : \E c \in {"type", "team", "player"} : df.rows[i][c] = NULL
        THEN Raised("AttributeError")
        ELSE Returned(d5)

---------------------------------------------------------------------------
(* Python's order on str, and sorted sequences *)

RECURSIVE StrLess(_, _)
StrLess(a, b) ==
    IF b = <<>> THEN FALSE
    ELSE IF a = <<>> THEN TRUE
    ELSE IF Head(a) < Head(b) THEN TRUE
    ELSE IF Head(a) > Head(b) THEN FALSE
    ELSE StrLess(Tail(a), Tail(b))

\* the order on sort keys, a key being the tuple of the values sorted by:
\* lexicographic, each component compared as str (or as a date's numbers)
RECURSIVE KeyLess(_, _)
KeyLess(p, q) ==
    IF p = <<>> THEN FALSE
    ELSE StrLess(Head(p), Head(q)) \/ (Head(p) = Head(q) /\ KeyLess(Tail(p), Tail(q)))

\* the keys of the finite set S in ascending order: the key at position i has
\* i - 1 keys of S below it
SortSet(S) ==
    [i \in 1..Cardinality(S) |->
        CHOOSE x \in S : Cardinality({y \in S : KeyLess(y, x)}) = i - 1]

---------------------------------------------------------------------------
(* processor.py: get_team_stats, get_player_stats *)

\* Series.count(): the cells that are not null
CountNotNull(rows, c) == Len(SelectSeq(rows, LAMBDA r : r[c] # NULL))

\* Series.size: every cell
CountAll(rows, c) == Len(rows)

\* x.value_counts().to_dict(): null cells are left out
ValueCounts(rows, c) ==
    [v \in {rows[i][c][1] : i \in {j \in 1..Len(rows) : rows[j][c] # NULL}} |->
        Len(SelectSeq(rows, LAMBDA r : r[c] = Some(v)))]

\* groupby(by) with the default dropna=True: the keys are the distinct
\* combinations in which no cell is null, in ascending order
GroupKeys(rows, by) ==
    {[c \in by |-> rows[i][c]] : i \in {j \in 1..Len(rows) : \A c \in by : rows[j][c] # NULL}}

\* groupby(by, dropna=False): a null cell is a key as well
GroupKeysKeepNull(rows, by) == {[c \in by |-> rows[i][c]] : i \in 1..Len(rows)}

GroupRows(rows, key) == SelectSeq(rows, LAMBDA r : \A c \in DOMAIN key : r[c] = key[c])

\* .agg({'id': 'count', 'event_type': value_counts().to_dict()}) of one group
AggGroup(rows, key) ==
    LET g == GroupRows(rows, key)
    IN  key @@ [total_events    |-> CountNotNull(g, "id"),
                event_breakdown |-> ValueCounts(g, "event_type")]

get_team_stats(df) ==
    LET keys  == GroupKeys(df.rows, {"team_name"})
        order == SortSet({<<k["team_name"][1]>> : k \in keys})
    IN  [i \in 1..Len(order) |-> AggGroup(df.rows, [team_name |-> Some(order[i][1])])]

get_player_stats(df) ==
    LET keys  == GroupKeys(df.rows, {"team_name", "player_name"})
        order == SortSet({<<k["team_name"][1], k["player_name"][1]>> : k \in keys})
    IN  [i \in 1..Len(order) |->
            AggGroup(df.rows, [team_name |-> Some(order[i][1]),
                               player_name |-> Some(order[i][2])])]

---------------------------------------------------------------------------
(* visualization.py: create_heatmap *)

\* len(pd.Series(cell)): a list gives one entry per element, NaN gives one NaN
UnpackedWidth(cell) == IF cell = NULL THEN 1 ELSE Len(cell[1])

\* entry k of pd.Series(cell) in the frame apply(pd.Series) builds
UnpackedEntry(cell, k) ==
    IF cell = NULL \/ Len(cell[1]) < k THEN NULL ELSE Some(cell[1][k])

MaxOf(S) == IF S = {} THEN 0 ELSE CHOOSE m \in S : \A n \in S : n <= m

NoFigure == [exc |-> "", x |-> <<>>, y |-> <<>>]

create_heatmap(df, event_type) ==
    LET rows  == IF event_type # NULL
                 THEN SelectSeq(df.rows, LAMBDA r : r["event_type"] = event_type)
                 ELSE df.rows
        n     == Len(rows)
        width == MaxOf({UnpackedWidth(rows[i]["location"]) : i \in 1..n})
    IN  IF "location" \notin df.columns THEN [NoFigure EXCEPT !.exc = "KeyError"]
        ELSE IF n = 0 THEN [NoFigure EXCEPT !.exc = "KeyError"]
        ELSE IF width # 2 THEN [NoFigure EXCEPT !.exc = "ValueError"]
        ELSE [exc |-> "",
              x   |-> [i \in 1..n |-> UnpackedEntry(rows[i]["location"], 1)],
              y   |-> [i \in 1..n |-> UnpackedEntry(rows[i]["location"], 2)]]

---------------------------------------------------------------------------
(* processor.py: process_competitions, process_matches *)

\* df.sort_values(by): the rows in ascending order of their sort keys, rows of
\* equal keys in their original order
StableSort(rows, keys) ==
    LET n == Len(rows)
        Before(j, i) == KeyLess(keys[j], keys[i]) \/ (keys[j] = keys[i] /\ j < i)
        Rank(i) == Cardinality({j \in 1..n : j # i /\ Before(j, i)}) + 1
    IN  [p \in 1..n |-> rows[CHOOSE i \in 1..n : Rank(i) = p]]

\* by=['competition_name', 'season_name']
CompetitionKey(row) == <<row["competition_name"], row["season_name"]>>

process_competitions(comps) ==
    LET df == DataFrame(comps)
    IN  IF "competition_name" \notin df.columns \/ "season_name" \notin df.columns
        THEN Raised("KeyError")
        ELSE Returned([df EXCEPT !.rows =
                           StableSort(df.rows, [i \in 1..Len(df.rows) |->
                                                   CompetitionKey(df.rows[i])])])

IsDigit(c) == c \in 48..57

\* the number a sequence of decimal digits writes
RECURSIVE DigitsValue(_)
DigitsValue(ds) ==
    IF ds = <<>> THEN 0 ELSE 10 * DigitsValue(SubSeq(ds, 1, Len(ds) - 1)) + (ds[Len(ds)] - 48)

\* pd.to_datetime on a 'YYYY-MM-DD' string; NULL when the text is no date
ParseDate(text) ==
    IF    Len(text) = 10 /\ text[5] = 45 /\ text[8] = 45
       /\ \A i \in {1, 2, 3, 4, 6, 7, 9, 10} : IsDigit(text[i])
       /\ DigitsValue(SubSeq(text, 6, 7)) \in 1..12
       /\ DigitsValue(SubSeq(text, 9, 10)) \in 1..31
    THEN Some(<<DigitsValue(SubSeq(text, 1, 4)), DigitsValue(SubSeq(text, 6, 7)),
                DigitsValue(SubSeq(text, 9, 10))>>)
    ELSE NULL

\* by='match_date': a date is ordered by year, month, day
MatchKey(row) == <<row["match_date"]>>

process_matches(ms) ==
    LET df == DataFrame(ms)
        n  == Len(df.rows)
        parsed == [i \in 1..n |-> ParseDate(df.rows[i]["match_date"])]
        dated  == SetColumn(df, "match_date", [i \in 1..n |-> parsed[i][1]])
    IN  IF "match_date" \notin df.columns THEN Raised("KeyError")
        ELSE IF \E i \in 1..n : parsed[i] = NULL THEN Raised("ValueError")
        ELSE Returned([dated EXCEPT !.rows =
                           StableSort(dated.rows, [i \in 1..n |-> MatchKey(dated.rows[i])])])

---------------------------------------------------------------------------
(* The records the upstream data source may return *)

Competition(cid, sid, name, season) ==
    [competition_id |-> cid, season_id |-> sid, competition_name |-> name,
     season_name |-> season]

CompetitionUniverse ==
    { Competition(Some(1), Some(1), ch_A, y2020),
      Competition(Some(1), Some(2), ch_A, y2021),
      Competition(NULL, Some(2), ch_A, y2021),
      Competition(Some(2), Some(1), ch_B, y2020),
      Competition(Some(2), Some(2), ch_B, y2021),
      Competition(Some(3), Some(2), ch_AB, y2021) @@ [country_name |-> ch_A],
      [competition_id |-> Some(1)],
      [competition_id |-> Some(1), season_id |-> Some(1), competition_name |-> ch_A] }

d2022_01_01 == <<50, 48, 50, 50, 45, 48, 49, 45, 48, 49>>

d2021_05_09 == <<50, 48, 50, 49, 45, 48, 53, 45, 48, 57>>

d2022_13_01 == <<50, 48, 50, 50, 45, 49, 51, 45, 48, 49>>

Match(mid, home, away, hs, as, date) ==
    [match_id |-> mid, home_team |-> [home_team_name |-> home],
     away_team |-> [away_team_name |-> away], home_score |-> hs, away_score |-> as,
     match_date |-> date]

MatchUniverse ==
    { Match(Some(1), ch_A, ch_B, 2, 1, d2022_01_01),
      Match(Some(2), ch_A, ch_B, 2, 1, d2021_05_09),
      Match(Some(3), ch_B, ch_A, 0, 10, d2022_01_01),
      Match(Some(4), ch_B, ch_A, 0, 0, d2022_13_01),
      [match_id |-> Some(1)],
      [match_id |-> Some(5), home_team |-> [home_team_name |-> ch_A],
       away_team |-> [away_team_name |-> ch_B], home_score |-> 1, away_score |-> 1] }

\* a nested object {"name": ...}, and one that has an id but no name
Named(name) == [name |-> name]

Unnamed == [id |-> 1]

Event(id, ty, tm, pl, minute, second) ==
    [id |-> id, type |-> ty, minute |-> minute, second |-> second, possession |-> 1,
     play_pattern |-> Named(ch_A), team |-> tm, player |-> pl]

ShotDetail == [outcome |-> ch_A]

EventUniverse ==
    { \* a shot with its detail, and the shot of the end-to-end scenario: no detail
      Event(Some(1), Named(str_Shot), Named(ch_A), Named(ch_A), I64(10), I64(30))
          @@ [shot |-> Some(ShotDetail), location |-> Some(<<100, 50>>)],
      Event(Some(1), Named(str_Shot), Named(ch_A), Named(ch_A), I64(10), I64(30))
          @@ [location |-> Some(<<100, 50>>)],
      Event(Some(3), Named(str_Pass), Named(ch_A), Named(ch_B), I64(0), I64(59))
          @@ [location |-> Some(<<60, 40>>)],
      \* the same player name on the other team
      Event(Some(4), Named(str_Pass), Named(ch_B), Named(ch_A), I64(90), I64(0))
          @@ [location |-> Some(<<60, 40>>)],
      \* nested objects without a name
      Event(Some(5), Named(str_Pass), Unnamed, Named(ch_A), I64(45), I64(1))
          @@ [location |-> Some(<<60, 40>>)],
      Event(Some(6), Named(str_Pass), Named(ch_A), Unnamed, I64(45), I64(1)),
      Event(Some(8), Unnamed, Named(ch_B), Named(ch_B), I64(45), I64(1))
          @@ [location |-> Some(<<60>>)],
      \* a null id
      Event(NULL, Named(str_Pass), Named(ch_B), Named(ch_B), I64(45), I64(1))
          @@ [location |-> Some(<<60, 40>>)],
      \* a pass that carries a shot object, and a three-element location
      Event(Some(9), Named(str_Pass), Named(ch_A), Named(ch_A), I64(45), I64(1))
          @@ [shot |-> Some(ShotDetail), location |-> Some(<<60, 40, 1>>)],
      \* no player: not a valid event
      [id |-> Some(7), type |-> Named(str_Pass), minute |-> I64(1), second |-> I64(1),
       possession |-> 1, play_pattern |-> Named(ch_A), team |-> Named(ch_A),
       location |-> Some(<<60, 40>>)] }

\* minutes and seconds up to the ends of the int64 range
MinuteValues ==
    { I64(0), I64(1), I64(10), I64(45), I64(90), <<0, 32768, 0, 0>>, <<0, 0, 0, 32>>,
      <<8738, 8738, 8738, 546>>, <<8739, 8738, 8738, 546>>, <<0, 0, 0, 16384>>,
      <<65535, 65535, 65535, 32767>>, <<65535, 65535, 65535, 65535>> }

SecondValues ==
    { I64(0), I64(7), I64(8), I64(30), I64(59), <<65535, 65535, 65535, 32767>>,
      <<65535, 65535, 65535, 65535>> }

TimedEvents ==
    { Event(Some(1), Named(str_Shot), Named(ch_A), Named(ch_A), m, sec)
          @@ [location |-> Some(<<100, 50>>)] : m \in MinuteValues, sec \in SecondValues }

---------------------------------------------------------------------------
(* visualization.py: the rows the charts are built from *)

\* one point per row: x the timestamp, y the event type, coloured by team
create_event_timeline(df) ==
    {[x |-> df.rows[i]["timestamp"], y |-> df.rows[i]["event_type"],
      color |-> df.rows[i]["team_name"]] : i \in 1..Len(df.rows)}

\* event_counts, the list of {'team', 'event_type', 'count'} rows unpacked from
\* the event breakdowns, held as the bag of its rows (row -> number of times it
\* is in the list): one row is appended per stats row and entry of that row's
\* event_breakdown. px.bar raises ValueError on a frame without the columns it
\* is asked to plot, which is what pd.DataFrame([]) is
create_team_event_breakdown(stats) ==
    LET entries == UNION {{<<k, ty>> : ty \in DOMAIN stats[k]["event_breakdown"]} :
                              k \in 1..Len(stats)}
        Row(e)  == [team       |-> stats[e[1]]["team_name"],
                    event_type |-> e[2],
                    count      |-> stats[e[1]]["event_breakdown"][e[2]]]
        event_counts ==
            [r \in {Row(e) : e \in entries} |-> Cardinality({e \in entries : Row(e) = r})]
    IN  [exc |-> IF entries = {} THEN "ValueError" ELSE "", rows |-> event_counts]

\* a breakdown that unpacks the players of every team
create_all_players_event_breakdown(stats, team_name) ==
    LET entries == UNION {{<<k, ty>> : ty \in DOMAIN stats[k]["event_breakdown"]} :
                              k \in 1..Len(stats)}
        Row(e)  == [player     |-> stats[e[1]]["player_name"],
                    event_type |-> e[2],
                    count      |-> stats[e[1]]["event_breakdown"][e[2]]]
        event_counts ==
            [r \in {Row(e) : e \in entries} |-> Cardinality({e \in entries : Row(e) = r})]
    IN  [exc |-> IF entries = {} THEN "ValueError" ELSE "", rows |-> event_counts]

\* the same for the rows of player_stats whose team_name is the given team,
\* with the player's name under 'player'
create_player_event_breakdown(stats, team_name) ==
    LET team_players == SelectSeq(stats, LAMBDA r : r["team_name"] = team_name)
        entries == UNION {{<<k, ty>> : ty \in DOMAIN team_players[k]["event_breakdown"]} :
                              k \in 1..Len(team_players)}
        Row(e)  == [player     |-> team_players[e[1]]["player_name"],
                    event_type |-> e[2],
                    count      |-> team_players[e[1]]["event_breakdown"][e[2]]]
        event_counts ==
            [r \in {Row(e) : e \in entries} |-> Cardinality({e \in entries : Row(e) = r})]
    IN  [exc |-> IF entries = {} THEN "ValueError" ELSE "", rows |-> event_counts]

---------------------------------------------------------------------------
(* loader.py: the fetch functions *)

\* what requests.get and raise_for_status end in: the JSON of the resource, or
\* a RequestException (timeout, connection error, HTTP error status); a
\* resource the data source does not have (NULL) always ends in the latter
HttpOutcomes(resource) ==
    {[ok |-> FALSE, json |-> <<>>]}
        \cup (IF resource = NULL THEN {} ELSE {[ok |-> TRUE, json |-> resource[1]]})

\* try: return response.json()  except RequestException: return []
fetch_competitions(response) == IF response.ok THEN response.json ELSE <<>>

fetch_matches(response) == IF response.ok THEN response.json ELSE <<>>

fetch_events(response) == IF response.ok THEN response.json ELSE <<>>

\* the files of the data source
RemoteCompetitions ==
    << Competition(Some(1), Some(2), ch_A, y2021),
       Competition(Some(1), Some(1), ch_A, y2020),
       [competition_id |-> Some(1)] >>

RemoteMatches(competition_id, season_id) ==
    IF competition_id = Some(1) /\ season_id = Some(1)
    THEN Some(<< Match(Some(1), ch_A, ch_B, 2, 1, d2022_01_01),
                 Match(Some(2), ch_A, ch_B, 2, 1, d2021_05_09),
                 [match_id |-> Some(1)] >>)
    ELSE IF competition_id = Some(1) /\ season_id = Some(2)
    THEN Some(<< Match(Some(3), ch_B, ch_A, 0, 10, d2022_01_01),
                 Match(Some(4), ch_A, ch_B, 1, 1, d2021_05_09) >>)
    ELSE NULL

RemoteEvents(match_id) ==
    IF match_id = Some(1)
    THEN Some(<< Event(Some(1), Named(str_Shot), Named(ch_A), Named(ch_A), I64(10), I64(30))
                     @@ [location |-> Some(<<100, 50>>)],
                 Event(Some(4), Named(str_Pass), Named(ch_B), Named(ch_A), I64(90), I64(0))
                     @@ [location |-> Some(<<60, 40>>)],
                 [id |-> Some(7)] >>)
    ELSE IF match_id = Some(2)
    THEN Some(<< Event(Some(3), Named(str_Pass), Named(ch_A), Named(ch_B), I64(0), I64(59))
                     @@ [location |-> Some(<<60, 40, 1>>)],
                 Event(Some(5), Named(str_Pass), Unnamed, Named(ch_A), I64(45), I64(1))
                     @@ [location |-> Some(<<60, 40>>)] >>)
    ELSE IF match_id = Some(3)
    THEN Some(<< Event(Some(2), Named(str_Shot), Named(ch_B), Named(ch_B), I64(5), I64(0))
                     @@ [location |-> Some(<<110, 40>>), shot |-> Some(ShotDetail)],
                 Event(Some(6), Named(str_Pass), Named(ch_A), Named(ch_A), I64(5), I64(20))
                     @@ [location |-> Some(<<30, 20>>)],
                 Event(Some(8), Named(str_Pass), Named(ch_A), Named(ch_B), I64(7), I64(3))
                     @@ [location |-> Some(<<35, 60>>)] >>)
    ELSE NULL

NoCache == [competitions |-> NULL, matches |-> <<>>, events |-> <<>>]

---------------------------------------------------------------------------
(* app.py: the script, one action per stage of a run *)

NoSelection ==
    [competition_id |-> NULL, season_id |-> NULL, match_id |-> NULL, team_name |-> NULL,
     player_name |-> NULL]

NoChart == [exc |-> "", rows |-> <<>>]

\* the decimal digits of a non-negative int, as str() writes them
RECURSIVE Digits(_)
Digits(n) == IF n < 10 THEN <<48 + n>> ELSE Digits(n \div 10) \o <<48 + (n % 10)>>

\* f"{x['competition_name']} - {x['season_name']}"
CompetitionLabel(row) == row["competition_name"] \o <<32, 45, 32>> \o row["season_name"]

\* f"{home_team_name} {home_score} - {away_score} {away_team_name}"
MatchLabel(row) ==
    row["home_team"]["home_team_name"] \o <<32>> \o Digits(row["home_score"])
        \o <<32, 45, 32>> \o Digits(row["away_score"]) \o <<32>>
        \o row["away_team"]["away_team_name"]

\* df[labels == choice].iloc[0]: the first row whose label is the choice
FirstRow(rows, labels, choice) ==
    rows[CHOOSE i \in 1..Len(rows) :
             labels[i] = choice /\ \A j \in 1..(i - 1) : labels[j] # choice]

\* the values of a column, as .unique() lists them
ColumnValues(rows, c) == {rows[i][c] : i \in 1..Len(rows)}

---------------------------------------------------------------------------
(* loader.py: json.dump and json.load, as save_to_cache and load_from_cache *)
(* use them. A Python value is a record of one shape: its type, and the     *)
(* int, the str, or the keys and items that a value of that type holds.     *)

PyNone == [type |-> "None", n |-> 0, s |-> <<>>, keys |-> <<>>, items |-> <<>>]

PyInt(n) == [type |-> "int", n |-> n, s |-> <<>>, keys |-> <<>>, items |-> <<>>]

PyStr(s) == [type |-> "str", n |-> 0, s |-> s, keys |-> <<>>, items |-> <<>>]

PyList(items) == [type |-> "list", n |-> 0, s |-> <<>>, keys |-> <<>>, items |-> items]

\* a dict with str keys: keys[i] is the key of items[i], in insertion order
PyDict(keys, items) == [type |-> "dict", n |-> 0, s |-> <<>>, keys |-> keys, items |-> items]

\* a value json cannot serialize (a DataFrame, a set, ...)
PyObject == [type |-> "object", n |-> 0, s |-> <<>>, keys |-> <<>>, items |-> <<>>]

\* the characters of a str between the quotes: '"' and '\' are escaped
RECURSIVE EscapeStr(_)
EscapeStr(s) ==
    IF s = <<>> THEN <<>>
    ELSE (IF Head(s) \in {34, 92} THEN <<92, Head(s)>> ELSE <<Head(s)>>) \o EscapeStr(Tail(s))

QuoteStr(s) == <<34>> \o EscapeStr(s) \o <<34>>

\* json.dump(data, f): the text written to f, and whether it ended without a
\* TypeError; the chunks go to f one by one, so the text before a value that
\* cannot be serialized is written
RECURSIVE JsonDump(_, _)
JsonDump(v, written) ==
    LET \* the items of a list or dict from the k-th on
        RECURSIVE DumpItems(_, _)
        DumpItems(k, text) ==
            IF k > Len(v.items)
            THEN [ok |-> TRUE, text |-> text \o (IF v.type = "list" THEN <<93>> ELSE <<125>>)]
            ELSE LET sep  == IF k = 1 THEN <<>> ELSE <<44, 32>>
                     key  == IF v.type = "dict" THEN QuoteStr(v.keys[k]) \o <<58, 32>> ELSE <<>>
                     item == JsonDump(v.items[k], text \o sep \o key)
                 IN  IF item.ok THEN DumpItems(k + 1, item.text) ELSE item
    IN  CASE v.type = "None" -> [ok |-> TRUE, text |-> written \o <<110, 117, 108, 108>>]
          [] v.type = "int"  ->
                [ok |-> TRUE,
                 text |-> written \o (IF v.n < 0 THEN <<45>> \o Digits(-v.n) ELSE Digits(v.n))]
          [] v.type = "str"  -> [ok |-> TRUE, text |-> written \o QuoteStr(v.s)]
          [] v.type = "list" -> DumpItems(1, written \o <<91>>)
          [] v.type = "dict" -> DumpItems(1, written \o <<123>>)
          [] OTHER           -> [ok |-> FALSE, text |-> written]

\* the position of the first character at or after i that is not a space
RECURSIVE SkipSpace(_, _)
SkipSpace(text, i) == IF i <= Len(text) /\ text[i] = 32 THEN SkipSpace(text, i + 1) ELSE i

\* the end of the run of digits that starts at i (i itself if there is none)
RECURSIVE DigitsEnd(_, _)
DigitsEnd(text, i) ==
    IF i <= Len(text) /\ IsDigit(text[i]) THEN DigitsEnd(text, i + 1) ELSE i

ParseError == [ok |-> FALSE, value |-> PyNone, pos |-> 0]

Parsed(v, pos) == [ok |-> TRUE, value |-> v, pos |-> pos]

\* the str whose opening quote is before i: its characters so far are s
RECURSIVE ParseStr(_, _, _)
ParseStr(text, i, s) ==
    IF i > Len(text) THEN ParseError
    ELSE IF text[i] = 34 THEN Parsed(PyStr(s), i + 1)
    ELSE IF text[i] = 92
         THEN IF i + 1 <= Len(text) /\ text[i + 1] \in {34, 92}
              THEN ParseStr(text, i + 2, s \o <<text[i + 1]>>)
              ELSE ParseError
    ELSE ParseStr(text, i + 1, s \o <<text[i]>>)

\* d[key] = value on the dict under construction: a repeated key keeps its
\* place and takes the later value
DictSet(d, key, value) ==
    IF \E k \in 1..Len(d.keys) : d.keys[k] = key
    THEN PyDict(d.keys, [k \in 1..Len(d.items) |->
                            IF d.keys[k] = key THEN value ELSE d.items[k]])
    ELSE PyDict(d.keys \o <<key>>, d.items \o <<value>>)

\* the JSON value that starts at i, and the position after it
RECURSIVE ParseValue(_, _)
ParseValue(text, start) ==
    LET i == SkipSpace(text, start)
        \* after an item: ',' and another item, or the closing bracket
        RECURSIVE ParseItems(_, _)
        ParseItems(acc, p) ==
            LET item == ParseValue(text, p)
                q    == SkipSpace(text, item.pos)
            IN  IF ~item.ok \/ q > Len(text) THEN ParseError
                ELSE IF text[q] = 93 THEN Parsed(PyList(acc \o <<item.value>>), q + 1)
                ELSE IF text[q] = 44 THEN ParseItems(acc \o <<item.value>>, q + 1)
                ELSE ParseError
        RECURSIVE ParseMembers(_, _)
        ParseMembers(acc, p) ==
            LET k     == SkipSpace(text, p)
                key   == IF k <= Len(text) /\ text[k] = 34
                         THEN ParseStr(text, k + 1, <<>>) ELSE ParseError
                colon == SkipSpace(text, key.pos)
                item  == IF key.ok /\ colon <= Len(text) /\ text[colon] = 58
                         THEN ParseValue(text, colon + 1) ELSE ParseError
                q     == SkipSpace(text, item.pos)
                d     == DictSet(acc, key.value.s, item.value)
            IN  IF ~item.ok \/ q > Len(text) THEN ParseError
                ELSE IF text[q] = 125 THEN Parsed(d, q + 1)
                ELSE IF text[q] = 44 THEN ParseMembers(d, q + 1)
                ELSE ParseError
    IN  IF i > Len(text) THEN ParseError
        ELSE IF text[i] = 110
             THEN IF i + 3 <= Len(text) /\ SubSeq(text, i, i + 3) = <<110, 117, 108, 108>>
                  THEN Parsed(PyNone, i + 4) ELSE ParseError
        ELSE IF text[i] = 34 THEN ParseStr(text, i + 1, <<>>)
        ELSE IF text[i] = 45 \/ IsDigit(text[i])
             THEN LET first == IF text[i] = 45 THEN i + 1 ELSE i
                      end   == DigitsEnd(text, first)
                      n     == DigitsValue(SubSeq(text, first, end - 1))
                  IN  IF end = first \/ (text[first] = 48 /\ end > first + 1) THEN ParseError
                      ELSE Parsed(PyInt(IF text[i] = 45 THEN -n ELSE n), end)
        ELSE IF text[i] = 91
             THEN LET q == SkipSpace(text, i + 1)
                  IN  IF q <= Len(text) /\ text[q] = 93 THEN Parsed(PyList(<<>>), q + 1)
                      ELSE ParseItems(<<>>, i + 1)
        ELSE IF text[i] = 123
             THEN LET q == SkipSpace(text, i + 1)
                  IN  IF q <= Len(text) /\ text[q] = 125 THEN Parsed(PyDict(<<>>, <<>>), q + 1)
                      ELSE ParseMembers(PyDict(<<>>, <<>>), i + 1)
        ELSE ParseError

\* json.load(f) on a file of that text: the value, or NULL for JSONDecodeError
JsonLoad(text) ==
    LET r == ParseValue(text, 1)
    IN  IF r.ok /\ SkipSpace(text, r.pos) > Len(text) THEN Some(r.value) ELSE NULL

---------------------------------------------------------------------------
(* loader.py: save_to_cache, load_from_cache *)

\* the directory CACHE_DIR before any file is written to it
NoFiles == [f \in {} |-> <<>>]

CacheFilenames == {"competitions.json", "matches_1_1.json"}

\* data a caller may hand to save_to_cache: lists and dicts as response.json()
\* returns them, and some that hold a value json cannot serialize
CacheDocuments ==
    { PyList(<<>>),
      PyList(<<PyNone, PyInt(-3)>>),
      PyList(<<PyDict(<<ch_A>>, <<PyInt(12)>>)>>),
      PyDict(<<ch_A, ch_B>>, <<PyStr(<<>>), PyList(<<PyInt(0)>>)>>),
      PyList(<<PyStr(<<34, 92, 65>>)>>),
      PyList(<<PyInt(12), PyObject>>),
      PyDict(<<ch_A>>, <<PyObject>>) }

\* what the file system does during a save: nothing wrong, open() fails, or a
\* write fails after part of the text reached the file (none of it, or all but
\* its last character)
SaveFaults(data) ==
    LET size == Len(JsonDump(data, <<>>).text)
    IN  {[fault |-> "none", written |-> 0], [fault |-> "open", written |-> 0]}
            \cup {[fault |-> "write", written |-> k] :
                     k \in {0, size - 1} \cap 0..(size - 1)}

\* what the file system does during a load: nothing wrong, or the read fails
LoadFaults == {"none", "read"}

\* except Exception: the exceptions the two functions log and swallow
IsException(e) == e \in {"OSError", "TypeError", "JSONDecodeError"}

\* save_to_cache, its try block: open(cache_file, 'w') empties the file, then
\* json.dump writes the text; the exception that ends the block, if any, and
\* the directory it leaves
SaveAttempt(dir, data, filename, io) ==
    LET dumped == JsonDump(data, <<>>)
    IN  IF io.fault = "open" THEN [exc |-> "OSError", dir |-> dir]
        ELSE IF io.fault = "write"
        THEN [exc |-> "OSError",
              dir |-> (filename :> SubSeq(dumped.text, 1, io.written)) @@ dir]
        ELSE [exc |-> IF dumped.ok THEN "" ELSE "TypeError",
              dir |-> (filename :> dumped.text) @@ dir]

save_to_cache(dir, data, filename, io) ==
    LET attempt == SaveAttempt(dir, data, filename, io)
    IN  [raised |-> IF IsException(attempt.exc) THEN "" ELSE attempt.exc,
         dir    |-> attempt.dir]

\* load_from_cache, its try block: the exception that ends it, if any, and the
\* value it returns (None when the file does not exist and the block falls
\* through to the final return)
LoadAttempt(dir, filename, io) ==
    IF filename \notin DOMAIN dir THEN [exc |-> "", data |-> PyNone]
    ELSE IF io = "read" THEN [exc |-> "OSError", data |-> PyNone]
    ELSE LET loaded == JsonLoad(dir[filename])
         IN  IF loaded = NULL THEN [exc |-> "JSONDecodeError", data |-> PyNone]
             ELSE [exc |-> "", data |-> loaded[1]]

\* a load whose exceptions are not caught
load_from_cache_uncaught(dir, filename, io) ==
    LET attempt == LoadAttempt(dir, filename, io)
    IN  [raised |-> attempt.exc, returned |-> attempt.data]

load_from_cache(dir, filename, io) ==
    LET attempt == LoadAttempt(dir, filename, io)
    IN  [raised   |-> IF IsException(attempt.exc) THEN "" ELSE attempt.exc,
         returned |-> IF attempt.exc = "" THEN attempt.data ELSE PyNone]

NoCall ==
    [op |-> "", filename |-> "", data |-> PyNone, fault |-> "none", returned |-> PyNone,
     raised |-> ""]

\* the variables of the script run, which the cache functions do not touch
script_vars ==
    <<pc, exc, session_state, fetch_cache, competitions, valid_competitions,
      competitions_df, competition_season, matches, valid_matches, matches_df,
      match_label, events, valid_events, events_df, team_stats, player_stats,
      selected_event_type, timeline_fig, team_breakdown, player_breakdown, heatmap_fig>>

---------------------------------------------------------------------------
(* app.py: the stages of the script *)

FetchCompetitions ==
    /\ pc = "start"
    /\ IF fetch_cache.competitions # NULL
       THEN /\ competitions' = fetch_cache.competitions[1]
            /\ UNCHANGED fetch_cache
       ELSE \E response \in HttpOutcomes(Some(RemoteCompetitions)) :
                /\ competitions' = fetch_competitions(response)
                /\ fetch_cache' = [fetch_cache EXCEPT
                                       !.competitions = Some(fetch_competitions(response))]
    /\ pc' = "competitions_fetched"
    /\ UNCHANGED <<exc, session_state, valid_competitions, competitions_df,
                   competition_season, matches, valid_matches, matches_df, match_label,
                   events, valid_events, events_df, team_stats, player_stats,
                   selected_event_type, timeline_fig, team_breakdown, player_breakdown,
                   heatmap_fig>>
    /\ UNCHANGED cache_vars

ValidateCompetitions ==
    /\ pc = "competitions_fetched"
    /\ valid_competitions' = validate_competition_data(competitions)
    /\ pc' = "competitions_validated"
    /\ UNCHANGED <<exc, session_state, fetch_cache, competitions, competitions_df,
                   competition_season, matches, valid_matches, matches_df, match_label,
                   events, valid_events, events_df, team_stats, player_stats,
                   selected_event_type, timeline_fig, team_breakdown, player_breakdown,
                   heatmap_fig>>
    /\ UNCHANGED cache_vars

\* a run that tabulates the fetched list as it came, without validating it
ProcessRawCompetitions ==
    /\ pc = "competitions_fetched"
    /\ LET r == process_competitions(competitions)
       IN  /\ competitions_df' = r.df
           /\ exc' = Uncaught(r.exc, "process_competitions")
           /\ pc' = IF r.exc = "" THEN "competitions_processed" ELSE "aborted"
    /\ UNCHANGED <<session_state, fetch_cache, competitions, valid_competitions,
                   competition_season, matches, valid_matches, matches_df, match_label,
                   events, valid_events, events_df, team_stats, player_stats,
                   selected_event_type, timeline_fig, team_breakdown, player_breakdown,
                   heatmap_fig>>
    /\ UNCHANGED cache_vars

ProcessCompetitions ==
    /\ pc = "competitions_validated"
    /\ LET r == process_competitions(valid_competitions)
       IN  /\ competitions_df' = r.df
           /\ exc' = Uncaught(r.exc, "process_competitions")
           /\ pc' = IF r.exc = "" THEN "competitions_processed" ELSE "aborted"
    /\ UNCHANGED <<session_state, fetch_cache, competitions, valid_competitions,
                   competition_season, matches, valid_matches, matches_df, match_label,
                   events, valid_events, events_df, team_stats, player_stats,
                   selected_event_type, timeline_fig, team_breakdown, player_breakdown,
                   heatmap_fig>>
    /\ UNCHANGED cache_vars

\* the competition selector and, when it has a value, the ids of the first row
\* with that label stored in the session
SelectCompetition ==
    /\ pc = "competitions_processed"
    /\ LET options == {CompetitionLabel(competitions_df.rows[i]) :
                          i \in 1..Len(competitions_df.rows)}
       IN  IF options = {}
           THEN /\ competition_season' = NULL
                /\ pc' = "done"
                /\ UNCHANGED session_state
           ELSE \E choice \in options :
                    LET selected_comp ==
                            FirstRow(competitions_df.rows,
                                     [i \in 1..Len(competitions_df.rows) |->
                                         CompetitionLabel(competitions_df.rows[i])],
                                     choice)
                    IN  /\ competition_season' = Some(choice)
                        /\ session_state' =
                               [session_state EXCEPT
                                    !.competition_id = selected_comp["competition_id"],
                                    !.season_id = selected_comp["season_id"]]
                        /\ pc' = "competition_selected"
    /\ UNCHANGED <<exc, fetch_cache, competitions, valid_competitions, competitions_df,
                   matches, valid_matches, matches_df, match_label, events,
                   valid_events, events_df, team_stats, player_stats,
                   selected_event_type, timeline_fig, team_breakdown, player_breakdown,
                   heatmap_fig>>
    /\ UNCHANGED cache_vars

FetchMatches ==
    /\ pc = "competition_selected"
    /\ LET key == <<session_state.competition_id, session_state.season_id>>
       IN  IF key \in DOMAIN fetch_cache.matches
           THEN /\ matches' = fetch_cache.matches[key]
                /\ UNCHANGED fetch_cache
           ELSE \E response \in HttpOutcomes(RemoteMatches(key[1], key[2])) :
                    /\ matches' = fetch_matches(response)
                    /\ fetch_cache' = [fetch_cache EXCEPT
                                           !.matches = (key :> fetch_matches(response)) @@ @]
    /\ pc' = "matches_fetched"
    /\ UNCHANGED <<exc, session_state, competitions, valid_competitions,
                   competitions_df, competition_season, valid_matches, matches_df,
                   match_label, events, valid_events, events_df, team_stats,
                   player_stats, selected_event_type, timeline_fig, team_breakdown,
                   player_breakdown, heatmap_fig>>
    /\ UNCHANGED cache_vars

ValidateMatches ==
    /\ pc = "matches_fetched"
    /\ valid_matches' = validate_match_data(matches)
    /\ pc' = "matches_validated"
    /\ UNCHANGED <<exc, session_state, fetch_cache, competitions, valid_competitions,
                   competitions_df, competition_season, matches, matches_df,
                   match_label, events, valid_events, events_df, team_stats,
                   player_stats, selected_event_type, timeline_fig, team_breakdown,
                   player_breakdown, heatmap_fig>>
    /\ UNCHANGED cache_vars

ProcessMatches ==
    /\ pc = "matches_validated"
    /\ LET r == process_matches(valid_matches)
       IN  /\ matches_df' = r.df
           /\ exc' = Uncaught(r.exc, "process_matches")
           /\ pc' = IF r.exc = "" THEN "matches_processed" ELSE "aborted"
    /\ UNCHANGED <<session_state, fetch_cache, competitions, valid_competitions,
                   competitions_df, competition_season, matches, valid_matches,
                   match_label, events, valid_events, events_df, team_stats,
                   player_stats, selected_event_type, timeline_fig, team_breakdown,
                   player_breakdown, heatmap_fig>>
    /\ UNCHANGED cache_vars

\* the match selector and, when it has a value, the id of the first row with
\* that label stored in the session; building a label raises KeyError when a
\* nested team object has no name
SelectMatch ==
    /\ pc = "matches_processed"
    /\ IF \E i \in 1..Len(matches_df.rows) :
              \/ "home_team_name" \notin DOMAIN matches_df.rows[i]["home_team"]
              \/ "away_team_name" \notin DOMAIN matches_df.rows[i]["away_team"]
       THEN /\ exc' = Uncaught("KeyError", "app")
            /\ pc' = "aborted"
            /\ UNCHANGED <<match_label, session_state>>
       ELSE LET options == {MatchLabel(matches_df.rows[i]) : i \in 1..Len(matches_df.rows)}
            IN  IF options = {}
                THEN /\ match_label' = NULL
                     /\ pc' = "done"
                     /\ UNCHANGED <<exc, session_state>>
                ELSE \E choice \in options :
                         LET selected_match ==
                                 FirstRow(matches_df.rows,
                                          [i \in 1..Len(matches_df.rows) |->
                                              MatchLabel(matches_df.rows[i])],
                                          choice)
                         IN  /\ match_label' = Some(choice)
                             /\ session_state' =
                                    [session_state EXCEPT
                                         !.match_id = selected_match["match_id"]]
                             /\ pc' = "match_selected"
                             /\ UNCHANGED exc
    /\ UNCHANGED <<fetch_cache, competitions, valid_competitions, competitions_df,
                   competition_season, matches, valid_matches, matches_df, events,
                   valid_events, events_df, team_stats, player_stats,
                   selected_event_type, timeline_fig, team_breakdown, player_breakdown,
                   heatmap_fig>>
    /\ UNCHANGED cache_vars

FetchEvents ==
    /\ pc = "match_selected"
    /\ LET key == session_state.match_id
       IN  IF key \in DOMAIN fetch_cache.events
           THEN /\ events' = fetch_cache.events[key]
                /\ UNCHANGED fetch_cache
           ELSE \E response \in HttpOutcomes(RemoteEvents(key)) :
                    /\ events' = fetch_events(response)
                    /\ fetch_cache' = [fetch_cache EXCEPT
                                           !.events = (key :> fetch_events(response)) @@ @]
    /\ pc' = "events_fetched"
    /\ UNCHANGED <<exc, session_state, competitions, valid_competitions,
                   competitions_df, competition_season, matches, valid_matches,
                   matches_df, match_label, valid_events, events_df, team_stats,
                   player_stats, selected_event_type, timeline_fig, team_breakdown,
                   player_breakdown, heatmap_fig>>
    /\ UNCHANGED cache_vars

\* a validation that filters the fetched list in place
ValidateEventsInPlace ==
    /\ pc = "events_fetched"
    /\ valid_events' = validate_event_data(events)
    /\ events' = validate_event_data(events)
    /\ pc' = "events_validated"
    /\ UNCHANGED <<exc, session_state, fetch_cache, competitions, valid_competitions,
                   competitions_df, competition_season, matches, valid_matches, matches_df,
                   match_label, events_df, team_stats, player_stats,
                   selected_event_type, timeline_fig, team_breakdown, player_breakdown,
                   heatmap_fig>>
    /\ UNCHANGED cache_vars

ValidateEvents ==
    /\ pc = "events_fetched"
    /\ valid_events' = validate_event_data(events)
    /\ pc' = "events_validated"
    /\ UNCHANGED <<exc, session_state, fetch_cache, competitions, valid_competitions,
                   competitions_df, competition_season, matches, valid_matches,
                   matches_df, match_label, events, events_df, team_stats,
                   player_stats, selected_event_type, timeline_fig, team_breakdown,
                   player_breakdown, heatmap_fig>>
    /\ UNCHANGED cache_vars

ProcessEvents ==
    /\ pc = "events_validated"
    /\ LET r == process_events(valid_events)
       IN  /\ events_df' = r.df
           /\ exc' = Uncaught(r.exc, "process_events")
           /\ pc' = IF r.exc = "" THEN "events_processed" ELSE "aborted"
    /\ UNCHANGED <<session_state, fetch_cache, competitions, valid_competitions,
                   competitions_df, competition_season, matches, valid_matches,
                   matches_df, match_label, events, valid_events, team_stats,
                   player_stats, selected_event_type, timeline_fig, team_breakdown,
                   player_breakdown, heatmap_fig>>
    /\ UNCHANGED cache_vars

TeamStats ==
    /\ pc = "events_processed"
    /\ team_stats' = get_team_stats(events_df)
    /\ pc' = "team_stats_done"
    /\ UNCHANGED <<exc, session_state, fetch_cache, competitions, valid_competitions,
                   competitions_df, competition_season, matches, valid_matches,
                   matches_df, match_label, events, valid_events, events_df,
                   player_stats, selected_event_type, timeline_fig, team_breakdown,
                   player_breakdown, heatmap_fig>>
    /\ UNCHANGED cache_vars

PlayerStats ==
    /\ pc = "team_stats_done"
    /\ player_stats' = get_player_stats(events_df)
    /\ pc' = "player_stats_done"
    /\ UNCHANGED <<exc, session_state, fetch_cache, competitions, valid_competitions,
                   competitions_df, competition_season, matches, valid_matches,
                   matches_df, match_label, events, valid_events, events_df,
                   team_stats, selected_event_type, timeline_fig, team_breakdown,
                   player_breakdown, heatmap_fig>>
    /\ UNCHANGED cache_vars

\* st.session_state.team_name = selectbox(options=team_stats['team_name'].unique())
SelectTeam ==
    /\ pc = "player_stats_done"
    /\ LET options == ColumnValues(team_stats, "team_name")
       IN  IF options = {}
           THEN session_state' = [session_state EXCEPT !.team_name = NULL]
           ELSE \E choice \in options :
                    session_state' = [session_state EXCEPT !.team_name = choice]
    /\ pc' = "team_selected"
    /\ UNCHANGED <<exc, fetch_cache, competitions, valid_competitions, competitions_df,
                   competition_season, matches, valid_matches, matches_df, match_label,
                   events, valid_events, events_df, team_stats, player_stats,
                   selected_event_type, timeline_fig, team_breakdown, player_breakdown,
                   heatmap_fig>>
    /\ UNCHANGED cache_vars

\* if st.session_state.team_name: player_name = selectbox(the team's players)
SelectPlayer ==
    /\ pc = "team_selected"
    /\ IF session_state.team_name # NULL
       THEN LET team_players ==
                    SelectSeq(player_stats,
                              LAMBDA r : r["team_name"] = session_state.team_name)
                options == ColumnValues(team_players, "player_name")
            IN  IF options = {}
                THEN session_state' = [session_state EXCEPT !.player_name = NULL]
                ELSE \E choice \in options :
                         session_state' = [session_state EXCEPT !.player_name = choice]
       ELSE UNCHANGED session_state
    /\ pc' = "player_selected"
    /\ UNCHANGED <<exc, fetch_cache, competitions, valid_competitions, competitions_df,
                   competition_season, matches, valid_matches, matches_df, match_label,
                   events, valid_events, events_df, team_stats, player_stats,
                   selected_event_type, timeline_fig, team_breakdown, player_breakdown,
                   heatmap_fig>>
    /\ UNCHANGED cache_vars

\* the options of the event type selector: 'All', then the types of the table
EventTypeOptions(df) == {NULL} \cup ColumnValues(df.rows, "event_type")

SelectEventType ==
    /\ pc = "player_selected"
    /\ \E choice \in EventTypeOptions(events_df) : selected_event_type' = choice
    /\ pc' = "event_type_selected"
    /\ UNCHANGED <<exc, session_state, fetch_cache, competitions, valid_competitions,
                   competitions_df, competition_season, matches, valid_matches,
                   matches_df, match_label, events, valid_events, events_df,
                   team_stats, player_stats, timeline_fig, team_breakdown,
                   player_breakdown, heatmap_fig>>
    /\ UNCHANGED cache_vars

Timeline ==
    /\ pc = "event_type_selected"
    /\ timeline_fig' = create_event_timeline(events_df)
    /\ pc' = "timeline_done"
    /\ UNCHANGED <<exc, session_state, fetch_cache, competitions, valid_competitions,
                   competitions_df, competition_season, matches, valid_matches,
                   matches_df, match_label, events, valid_events, events_df,
                   team_stats, player_stats, selected_event_type, team_breakdown,
                   player_breakdown, heatmap_fig>>
    /\ UNCHANGED cache_vars

TeamBreakdown ==
    /\ pc = "timeline_done"
    /\ LET chart == create_team_event_breakdown(team_stats)
       IN  /\ team_breakdown' = chart
           /\ exc' = Uncaught(chart.exc, "create_team_event_breakdown")
           /\ pc' = IF chart.exc = "" THEN "team_breakdown_done" ELSE "aborted"
    /\ UNCHANGED <<session_state, fetch_cache, competitions, valid_competitions,
                   competitions_df, competition_season, matches, valid_matches,
                   matches_df, match_label, events, valid_events, events_df,
                   team_stats, player_stats, selected_event_type, timeline_fig,
                   player_breakdown, heatmap_fig>>
    /\ UNCHANGED cache_vars

\* if st.session_state.team_name: create_player_event_breakdown(player_stats, team)
PlayerBreakdown ==
    /\ pc = "team_breakdown_done"
    /\ IF session_state.team_name # NULL
       THEN LET chart == create_player_event_breakdown(player_stats,
                                                       session_state.team_name)
            IN  /\ player_breakdown' = chart
                /\ exc' = Uncaught(chart.exc, "create_player_event_breakdown")
                /\ pc' = IF chart.exc = "" THEN "player_breakdown_done" ELSE "aborted"
       ELSE /\ pc' = "player_breakdown_done"
            /\ UNCHANGED <<exc, player_breakdown>>
    /\ UNCHANGED <<session_state, fetch_cache, competitions, valid_competitions,
                   competitions_df, competition_season, matches, valid_matches,
                   matches_df, match_label, events, valid_events, events_df,
                   team_stats, player_stats, selected_event_type, timeline_fig,
                   team_breakdown, heatmap_fig>>
    /\ UNCHANGED cache_vars

Heatmap ==
    /\ pc = "player_breakdown_done"
    /\ LET fig == create_heatmap(events_df, selected_event_type)
       IN  /\ heatmap_fig' = fig
           /\ exc' = Uncaught(fig.exc, "create_heatmap")
           /\ pc' = IF fig.exc = "" THEN "done" ELSE "aborted"
    /\ UNCHANGED <<session_state, fetch_cache, competitions, valid_competitions,
                   competitions_df, competition_season, matches, valid_matches,
                   matches_df, match_label, events, valid_events, events_df,
                   team_stats, player_stats, selected_event_type, timeline_fig,
                   team_breakdown, player_breakdown>>
    /\ UNCHANGED cache_vars

\* the values of the script's variables before a run has assigned them
NoLocals ==
    /\ exc = NoException
    /\ competitions = <<>> /\ valid_competitions = <<>> /\ competitions_df = EmptyFrame
    /\ competition_season = NULL
    /\ matches = <<>> /\ valid_matches = <<>> /\ matches_df = EmptyFrame
    /\ match_label = NULL
    /\ events = <<>> /\ valid_events = <<>> /\ events_df = EmptyFrame
    /\ team_stats = <<>> /\ player_stats = <<>>
    /\ selected_event_type = NULL
    /\ timeline_fig = {}
    /\ team_breakdown = NoChart /\ player_breakdown = NoChart
    /\ heatmap_fig = NoFigure

\* a widget interaction after a run has ended: the script runs again from the
\* top; the session state and the memoized fetches are kept
Rerun ==
    /\ pc \in {"done", "aborted"}
    /\ pc' = "start"
    /\ exc' = NoException
    /\ competitions' = <<>> /\ valid_competitions' = <<>> /\ competitions_df' = EmptyFrame
    /\ competition_season' = NULL
    /\ matches' = <<>> /\ valid_matches' = <<>> /\ matches_df' = EmptyFrame
    /\ match_label' = NULL
    /\ events' = <<>> /\ valid_events' = <<>> /\ events_df' = EmptyFrame
    /\ team_stats' = <<>> /\ player_stats' = <<>>
    /\ selected_event_type' = NULL
    /\ timeline_fig' = {}
    /\ team_breakdown' = NoChart /\ player_breakdown' = NoChart
    /\ heatmap_fig' = NoFigure
    /\ UNCHANGED <<session_state, fetch_cache>>
    /\ UNCHANGED cache_vars

\* ttl=3600: between two runs memoized fetches may have expired
CacheExpires ==
    /\ pc \in {"done", "aborted"}
    /\ fetch_cache # NoCache
    /\ \/ fetch_cache' = [fetch_cache EXCEPT !.competitions = NULL]
       \/ fetch_cache' = [fetch_cache EXCEPT !.matches = <<>>]
       \/ fetch_cache' = [fetch_cache EXCEPT !.events = <<>>]
    /\ UNCHANGED <<pc, exc, session_state, competitions, valid_competitions,
                   competitions_df, competition_season, matches, valid_matches,
                   matches_df, match_label, events, valid_events, events_df,
                   team_stats, player_stats, selected_event_type, timeline_fig,
                   team_breakdown, player_breakdown, heatmap_fig>>
    /\ UNCHANGED cache_vars

Init ==
    /\ pc = "start"
    /\ session_state = NoSelection
    /\ fetch_cache = NoCache
    /\ NoLocals
    /\ cache_dir = NoFiles
    /\ cache_call = NoCall

Next ==
    \/ FetchCompetitions
    \/ ValidateCompetitions
    \/ ProcessCompetitions
    \/ SelectCompetition
    \/ FetchMatches
    \/ ValidateMatches
    \/ ProcessMatches
    \/ SelectMatch
    \/ FetchEvents
    \/ ValidateEvents
    \/ ProcessEvents
    \/ TeamStats
    \/ PlayerStats
    \/ SelectTeam
    \/ SelectPlayer
    \/ SelectEventType
    \/ Timeline
    \/ TeamBreakdown
    \/ PlayerBreakdown
    \/ Heatmap
    \/ Rerun
    \/ CacheExpires

Spec == Init /\ [][Next]_vars

---------------------------------------------------------------------------
(* loader.py: the cache functions as a caller may use them *)

SaveToCache ==
    \E data \in CacheDocuments, filename \in CacheFilenames :
        \E io \in SaveFaults(data) :
            LET r == save_to_cache(cache_dir, data, filename, io)
            IN  /\ cache_dir' = r.dir
                /\ cache_call' = [op |-> "save_to_cache", filename |-> filename,
                                  data |-> data, fault |-> io.fault, returned |-> PyNone,
                                  raised |-> r.raised]
                /\ UNCHANGED script_vars

LoadFromCache ==
    \E filename \in CacheFilenames, io \in LoadFaults :
        LET r == load_from_cache(cache_dir, filename, io)
        IN  /\ UNCHANGED cache_dir
            /\ cache_call' = [op |-> "load_from_cache", filename |-> filename,
                              data |-> PyNone, fault |-> io, returned |-> r.returned,
                              raised |-> r.raised]
            /\ UNCHANGED script_vars

\* the two cache functions, called in any order on the files of CACHE_DIR
NextCache ==
    \/ SaveToCache
    \/ LoadFromCache

SpecCache == Init /\ [][NextCache]_vars

---------------------------------------------------------------------------
(* The stages after a fetch, applied to every list of records it may return *)

InitStages ==
    /\ session_state = NoSelection
    /\ fetch_cache = NoCache
    /\ \/ /\ pc = "competitions_fetched"
          /\ competitions \in SeqsUpTo(CompetitionUniverse, MaxRecords)
          /\ matches = <<>> /\ events = <<>>
       \/ /\ pc = "matches_fetched"
          /\ matches \in SeqsUpTo(MatchUniverse, MaxRecords)
          /\ competitions = <<>> /\ events = <<>>
       \/ /\ pc = "events_fetched"
          /\ events \in SeqsUpTo(EventUniverse, MaxRecords) \cup SeqsUpTo(TimedEvents, 1)
          /\ competitions = <<>> /\ matches = <<>>
    /\ exc = NoException
    /\ valid_competitions = <<>> /\ competitions_df = EmptyFrame
    /\ competition_season = NULL
    /\ valid_matches = <<>> /\ matches_df = EmptyFrame
    /\ match_label = NULL
    /\ valid_events = <<>> /\ events_df = EmptyFrame
    /\ team_stats = <<>> /\ player_stats = <<>>
    /\ selected_event_type = NULL
    /\ timeline_fig = {}
    /\ team_breakdown = NoChart /\ player_breakdown = NoChart
    /\ heatmap_fig = NoFigure
    /\ cache_dir = NoFiles
    /\ cache_call = NoCall

NextStages ==
    \/ ValidateCompetitions
    \/ ProcessCompetitions
    \/ ValidateMatches
    \/ ProcessMatches
    \/ ValidateEvents
    \/ ProcessEvents
    \/ TeamStats
    \/ PlayerStats
    \/ SelectTeam
    \/ SelectPlayer
    \/ SelectEventType
    \/ Timeline
    \/ TeamBreakdown
    \/ PlayerBreakdown
    \/ Heatmap

SpecStages == InitStages /\ [][NextStages]_vars

---------------------------------------------------------------------------
(* Properties of the validators, the tabulators and the script run *)

\* output is the subsequence of input made of the records that have every
\* field of required: the k-th output record is the k-th such input record
RequiredSubsequence(input, output, required) ==
    LET kept == {i \in 1..Len(input) : required \subseteq DOMAIN input[i]}
    IN  /\ Len(output) = Cardinality(kept)
        /\ \A k \in 1..Len(output) :
              \E i \in kept : /\ Cardinality({j \in kept : j <= i}) = k
                              /\ output[k] = input[i]

\* C1: each validator returns exactly the subsequence of its input (order and
\* duplicates kept, records unchanged) made of the records that contain every
\* required field of their kind, whatever the values; so the output is no
\* longer than the input and a record missing a required field is excluded.
C1_ValidatorsKeepCompleteRecords ==
    /\ pc = "competitions_validated" =>
          /\ RequiredSubsequence(competitions, valid_competitions,
                 {"competition_id", "competition_name", "season_id", "season_name"})
          /\ Len(valid_competitions) <= Len(competitions)
    /\ pc = "matches_validated" =>
          /\ RequiredSubsequence(matches, valid_matches,
                 {"match_id", "home_team", "away_team", "home_score", "away_score",
                  "match_date"})
          /\ Len(valid_matches) <= Len(matches)
    /\ pc = "events_validated" =>
          /\ RequiredSubsequence(events, valid_events,
                 {"id", "type", "minute", "second", "possession", "play_pattern",
                  "team", "player"})
          /\ Len(valid_events) <= Len(events)

\* C1 witness: three raw events, one without a player is dropped, the two kept
\* are the same record twice and carry a null id
C1_Witness ==
    /\ pc = "events_validated"
    /\ Len(events) = 3 /\ Len(valid_events) = 2
    /\ valid_events[1] = valid_events[2]
    /\ valid_events[1]["id"] = NULL
    /\ \E i \in 1..3 : "player" \notin DOMAIN events[i]

SignExtend(a) ==
    a \o (IF a[4] >= SignBit THEN <<LimbBase - 1, LimbBase - 1>> ELSE <<0, 0>>)

\* minute * 60 + second over the integers (96 bits hold every such value)
ExactTimestamp(minute, second) ==
    SubSeq(AddLimbs(SubSeq(MulLimbs(SignExtend(minute), 60, 0), 1, 6),
                    SignExtend(second), 0), 1, 6)

\* the value of an int64 below 2^24
SmallValue(a) == a[1] + LimbBase * a[2]

IsSmall(a) == a[3] = 0 /\ a[4] = 0 /\ a[2] < 256

TimestampRows == pc = "events_processed"

\* C3 as stated: timestamp = minute*60 + second exactly for all integer minute
\* and second values.
C3_TimestampExactForAllIntegers ==
    TimestampRows =>
        \A i \in 1..Len(valid_events) :
            SignExtend(events_df.rows[i]["timestamp"])
                = ExactTimestamp(valid_events[i]["minute"], valid_events[i]["second"])

\* C3 amended: timestamp is minute*60 + second reduced to the signed 64-bit
\* range of the column, hence exactly minute*60 + second whenever that value
\* lies in the signed 64-bit range (minute=10, second=30 gives 630).
C3_TimestampExactWithinInt64 ==
    TimestampRows =>
        \A i \in 1..Len(valid_events) :
            LET minute == valid_events[i]["minute"]
                second == valid_events[i]["second"]
                ts     == events_df.rows[i]["timestamp"]
                exact  == ExactTimestamp(minute, second)
            IN  /\ ts = SubSeq(exact, 1, 4)
                /\ exact = SignExtend(SubSeq(exact, 1, 4)) => SignExtend(ts) = exact
                /\ (IsSmall(minute) /\ IsSmall(second)) =>
                      /\ ts[3] = 0 /\ ts[4] = 0
                      /\ SmallValue(ts) = SmallValue(minute) * 60 + SmallValue(second)

\* C3 witness: the largest timestamp the column holds exactly,
\* 153722867280912930 * 60 + 7 = 2^63 - 1
C3_Witness ==
    /\ pc = "events_processed"
    /\ Len(valid_events) = 1
    /\ valid_events[1]["minute"] = <<8738, 8738, 8738, 546>>
    /\ valid_events[1]["second"] = I64(7)
    /\ events_df.rows[1]["timestamp"] = <<65535, 65535, 65535, 32767>>

\* the sum of the values of a function with a finite domain
RECURSIVE SumOf(_)
SumOf(f) ==
    IF DOMAIN f = {} THEN 0
    ELSE LET k == CHOOSE x \in DOMAIN f : TRUE
         IN  f[k] + SumOf([x \in DOMAIN f \ {k} |-> f[x]])

\* the rows of the event table with the given cells
RowsWith(cells) ==
    {i \in 1..Len(events_df.rows) : \A c \in DOMAIN cells : events_df.rows[i][c] = cells[c]}

\* C4: get_team_stats returns one row per distinct team_name value of the
\* event table, a team_name that is null (nested team without a name) included.
C4_OneRowPerTeamName ==
    pc = "team_stats_done" =>
        /\ Len(team_stats)
              = Cardinality({events_df.rows[i]["team_name"] : i \in 1..Len(events_df.rows)})
        /\ \A i \in 1..Len(events_df.rows) :
              \E k \in 1..Len(team_stats) :
                  team_stats[k]["team_name"] = events_df.rows[i]["team_name"]

\* C5: each team row's total_events is the number of event rows of that team,
\* each value of its event_breakdown is the number of that team's rows of that
\* event type, and the values sum to total_events, null ids and null event
\* types included.
C5_TeamTotalsMatchRows ==
    pc = "team_stats_done" =>
        \A k \in 1..Len(team_stats) :
            LET t == team_stats[k]
            IN  /\ t["total_events"]
                      = Cardinality(RowsWith([team_name |-> t["team_name"]]))
                /\ \A ty \in DOMAIN t["event_breakdown"] :
                      t["event_breakdown"][ty]
                          = Cardinality(RowsWith([team_name |-> t["team_name"],
                                                  event_type |-> Some(ty)]))
                /\ SumOf(t["event_breakdown"]) = t["total_events"]

\* C6: get_player_stats returns one row per distinct (team_name, player_name)
\* pair of the event table, with total_events the number of rows of that pair;
\* the same player name on two teams makes two groups.
C6_OneRowPerTeamPlayerPair ==
    pc = "player_stats_done" =>
        /\ Len(player_stats)
              = Cardinality({<<events_df.rows[i]["team_name"], events_df.rows[i]["player_name"]>> :
                                i \in 1..Len(events_df.rows)})
        /\ \A i \in 1..Len(events_df.rows) :
              \E k \in 1..Len(player_stats) :
                  /\ player_stats[k]["team_name"] = events_df.rows[i]["team_name"]
                  /\ player_stats[k]["player_name"] = events_df.rows[i]["player_name"]
        /\ \A k \in 1..Len(player_stats) :
              player_stats[k]["total_events"]
                  = Cardinality(RowsWith([team_name |-> player_stats[k]["team_name"],
                                          player_name |-> player_stats[k]["player_name"]]))

\* rows is a rearrangement of records
SameRecords(rows, records) ==
    /\ Len(rows) = Len(records)
    /\ \A r \in {records[i] : i \in 1..Len(records)} :
          Cardinality({i \in 1..Len(rows) : rows[i] = r})
              = Cardinality({i \in 1..Len(records) : records[i] = r})

\* C7: for every list of validated competitions process_competitions returns
\* the same records as rows, ascending by competition_name and then season_name.
C7_CompetitionsSortedForEveryList ==
    /\ exc.raised_by # "process_competitions"
    /\ pc = "competitions_processed" =>
          /\ SameRecords(competitions_df.rows, valid_competitions)
          /\ \A i \in 1..(Len(competitions_df.rows) - 1) :
                ~KeyLess(CompetitionKey(competitions_df.rows[i + 1]),
                         CompetitionKey(competitions_df.rows[i]))

\* C8: the shot column of a row is the event's shot detail when event_type is
\* "Shot" and an empty object otherwise: for every event of another type, and
\* for a Shot without detail whatever the other events of the list carry.
C8_ShotColumn ==
    pc = "events_processed" =>
        \A i \in 1..Len(valid_events) :
            events_df.rows[i]["shot"]
                = IF    events_df.rows[i]["event_type"] = Some(str_Shot)
                     /\ "shot" \in DOMAIN valid_events[i]
                  THEN valid_events[i]["shot"]
                  ELSE Some(EmptyDict)

\* C9: when a fetch fails it returns the empty list, and the run continues
\* through validation, tabulation and aggregation with zero rows: no stage
\* raises on the empty result of fetch_competitions, fetch_matches or
\* fetch_events.
C9_RunContinuesAfterFailedFetch ==
    /\ ~(competitions = <<>> /\ exc.raised_by = "process_competitions")
    /\ ~(matches = <<>> /\ exc.raised_by = "process_matches")
    /\ ~(events = <<>> /\ exc.raised_by = "process_events")

\* the rows create_heatmap is asked to plot, and those of them whose location
\* is a two-element [x, y]
HeatmapRows ==
    SelectSeq(events_df.rows,
              LAMBDA r : selected_event_type = NULL \/ r["event_type"] = selected_event_type)

HasXY(r) == "location" \in DOMAIN r /\ r["location"] # NULL /\ Len(r["location"][1]) = 2

\* C10: create_heatmap does not crash on rows whose location is missing or is
\* not a two-element [x, y]; it filters them out and builds the heatmap from
\* exactly the remaining rows of the selected event type.
C10_HeatmapFiltersBadLocations ==
    /\ exc.raised_by # "create_heatmap"
    /\ pc = "done" =>
          LET kept == SelectSeq(HeatmapRows, HasXY)
          IN  /\ heatmap_fig.x = [i \in 1..Len(kept) |-> Some(kept[i]["location"][1][1])]
              /\ heatmap_fig.y = [i \in 1..Len(kept) |-> Some(kept[i]["location"][1][2])]

\* the positions of a run, in the order of the script
StageOrder ==
    << "start",
       "competitions_fetched", "competitions_validated", "competitions_processed",
       "competition_selected",
       "matches_fetched", "matches_validated", "matches_processed", "match_selected",
       "events_fetched", "events_validated", "events_processed",
       "team_stats_done", "player_stats_done",
       "team_selected", "player_selected", "event_type_selected",
       "timeline_done", "team_breakdown_done", "player_breakdown_done" >>

Position(p) == CHOOSE i \in 1..Len(StageOrder) : StageOrder[i] = p

\* this step called the tabulator fn and reached the position done, or raised
Tabulated(fn, done) ==
    /\ pc' # pc
    /\ pc' = done \/ (pc' = "aborted" /\ exc'.raised_by = fn)

\* C11: every run validates before it tabulates. A step that calls
\* process_competitions, process_matches or process_events is taken right after
\* the matching validator ran, on that validator's output for the list fetched
\* in this run, so every record it tabulates has every required field; and the
\* positions of a run follow one another in the order of the script (fetch,
\* validate, tabulate, aggregate, render), one at a time.
C11_ValidateBeforeTabulate ==
    [][ /\ (pc' # pc /\ pc' \notin {"start", "done", "aborted"}) =>
              /\ pc \notin {"done", "aborted"}
              /\ Position(pc') = Position(pc) + 1
        /\ Tabulated("process_competitions", "competitions_processed") =>
              /\ pc = "competitions_validated"
              /\ valid_competitions = validate_competition_data(competitions)
              /\ \A i \in 1..Len(valid_competitions) :
                    HasAllFields(valid_competitions[i], CompetitionRequired)
              /\ competitions_df' = process_competitions(valid_competitions).df
        /\ Tabulated("process_matches", "matches_processed") =>
              /\ pc = "matches_validated"
              /\ valid_matches = validate_match_data(matches)
              /\ \A i \in 1..Len(valid_matches) : HasAllFields(valid_matches[i], MatchRequired)
              /\ matches_df' = process_matches(valid_matches).df
        /\ Tabulated("process_events", "events_processed") =>
              /\ pc = "events_validated"
              /\ valid_events = validate_event_data(events)
              /\ \A i \in 1..Len(valid_events) : HasAllFields(valid_events[i], EventRequired)
              /\ events_df' = process_events(valid_events).df
      ]_vars

\* C11 witness: a run fetched three matches, one without its required fields,
\* validated them and tabulated the two that passed, then went on to aggregate
\* the events of the match selected among them
C11_Witness ==
    /\ pc = "player_stats_done"
    /\ Len(matches) = 3 /\ Len(valid_matches) = 2 /\ Len(matches_df.rows) = 2
    /\ Len(events_df.rows) = Len(events) /\ Len(events) >= 1

\* C12: load_from_cache and save_to_cache never raise. A load returns None when
\* the file is absent and when reading or parsing it fails; when the file
\* holds the JSON text a save wrote for some data, the load returns that data;
\* and a save that met no fault leaves exactly that text under its file name.
C12_CacheMissNotFailure ==
    LET filename == cache_call.filename
        exists   == filename \in DOMAIN cache_dir
    IN  /\ cache_call.raised = ""
        /\ cache_call.op = "load_from_cache" =>
              /\ ~exists => cache_call.returned = PyNone
              /\ (exists /\ (cache_call.fault = "read" \/ JsonLoad(cache_dir[filename]) = NULL))
                    => cache_call.returned = PyNone
              /\ \A data \in CacheDocuments :
                    (   exists /\ cache_call.fault = "none" /\ JsonDump(data, <<>>).ok
                     /\ cache_dir[filename] = JsonDump(data, <<>>).text)
                        => cache_call.returned = data
        /\ (   cache_call.op = "save_to_cache" /\ cache_call.fault = "none"
             /\ JsonDump(cache_call.data, <<>>).ok)
                => /\ exists
                   /\ cache_dir[filename] = JsonDump(cache_call.data, <<>>).text

\* C12 witness: a dict saved as competitions.json is loaded back, while the
\* other file of the directory holds the text a failed save left behind
C12_Witness ==
    /\ cache_call.op = "load_from_cache"
    /\ cache_call.filename = "competitions.json"
    /\ cache_call.returned = PyDict(<<ch_A, ch_B>>, <<PyStr(<<>>), PyList(<<PyInt(0)>>)>>)
    /\ "matches_1_1.json" \in DOMAIN cache_dir
    /\ cache_dir["matches_1_1.json"] = JsonDump(PyList(<<PyInt(12), PyObject>>), <<>>).text

\* C13: the on-disk cache is read before each fetch and written after it: once
\* fetch_competitions, fetch_matches or fetch_events has returned, the cache
\* functions have been called (the entry was consulted), and when the fetch
\* returned a response the directory holds a file written for it.
C13_DiskCacheAroundEachFetch ==
    LET fetched == CASE pc = "competitions_fetched" -> competitions
                     [] pc = "matches_fetched"      -> matches
                     [] pc = "events_fetched"       -> events
                     [] OTHER                       -> <<>>
    IN  pc \in {"competitions_fetched", "matches_fetched", "events_fetched"} =>
            /\ cache_call.op \in {"load_from_cache", "save_to_cache"}
            /\ fetched # <<>> => cache_dir # NoFiles

\* C14: the validators and the aggregators are pure. A validate_*_data call
\* leaves the list it is given, and so every record of it, unchanged, and its
\* result depends on that list alone; get_team_stats and get_player_stats
\* leave the event table unchanged (same columns, same rows, same values), and
\* their result depends on that table alone.
C14_PureTransformations ==
    [][ /\ (pc' # pc /\ pc' = "competitions_validated") =>
              /\ competitions' = competitions
              /\ valid_competitions' = validate_competition_data(competitions)
        /\ (pc' # pc /\ pc' = "matches_validated") =>
              /\ matches' = matches
              /\ valid_matches' = validate_match_data(matches)
        /\ (pc' # pc /\ pc' = "events_validated") =>
              /\ events' = events
              /\ valid_events' = validate_event_data(events)
        /\ (pc' # pc /\ pc' = "team_stats_done") =>
              /\ events_df' = events_df
              /\ team_stats' = get_team_stats(events_df)
        /\ (pc' # pc /\ pc' = "player_stats_done") =>
              /\ events_df' = events_df
              /\ team_stats' = team_stats
              /\ player_stats' = get_player_stats(events_df)
      ]_vars

\* C14 witness: of three fetched events the validator dropped one, the fetched
\* list still holds the three, and both aggregations ran on the two-row table
C14_Witness ==
    /\ pc = "player_stats_done"
    /\ Len(events) = 3 /\ Len(valid_events) = 2
    /\ Len(events_df.rows) = 2
    /\ Len(team_stats) >= 1 /\ Len(player_stats) >= 1

\* the flat rows a chart got for one name (a team, or a player), counted with
\* the number of times each is in the list: the sum of their counts
RECURSIVE SumOfCounts(_, _)
SumOfCounts(rows, chosen) ==
    IF chosen = {} THEN 0
    ELSE LET r == CHOOSE x \in chosen : TRUE
         IN  r.count * rows[r] + SumOfCounts(rows, chosen \ {r})

\* the rows of player_stats of the team the session has selected
SelectedTeamPlayers ==
    SelectSeq(player_stats, LAMBDA r : r["team_name"] = session_state.team_name)

\* C15: the team chart gets exactly one (team, event_type, count) row per entry
\* of each team's event_breakdown, the player chart exactly one (player,
\* event_type, count) row per entry of the breakdown of each player of the
\* selected team and none for a player of another team; counts are unchanged,
\* so the counts of the rows of a team (a player) sum to the sum of its
\* breakdown.
C15_ChartRowsMatchBreakdowns ==
    /\ team_breakdown # NoChart =>
          LET rows == team_breakdown.rows
          IN  /\ \A k \in 1..Len(team_stats) :
                    LET breakdown == team_stats[k]["event_breakdown"]
                        team      == team_stats[k]["team_name"]
                    IN  /\ \A ty \in DOMAIN breakdown :
                              LET r == [team |-> team, event_type |-> ty,
                                        count |-> breakdown[ty]]
                              IN  r \in DOMAIN rows /\ rows[r] = 1
                        /\ SumOfCounts(rows, {r \in DOMAIN rows : r.team = team})
                              = SumOf(breakdown)
              /\ \A r \in DOMAIN rows :
                    \E k \in 1..Len(team_stats) :
                        /\ r.team = team_stats[k]["team_name"]
                        /\ r.event_type \in DOMAIN team_stats[k]["event_breakdown"]
                        /\ r.count = team_stats[k]["event_breakdown"][r.event_type]
    /\ player_breakdown # NoChart =>
          LET rows == player_breakdown.rows
          IN  /\ \A k \in 1..Len(SelectedTeamPlayers) :
                    LET breakdown == SelectedTeamPlayers[k]["event_breakdown"]
                        player    == SelectedTeamPlayers[k]["player_name"]
                    IN  /\ \A ty \in DOMAIN breakdown :
                              LET r == [player |-> player, event_type |-> ty,
                                        count |-> breakdown[ty]]
                              IN  r \in DOMAIN rows /\ rows[r] = 1
                        /\ SumOfCounts(rows, {r \in DOMAIN rows : r.player = player})
                              = SumOf(breakdown)
              /\ \A r \in DOMAIN rows :
                    \E k \in 1..Len(SelectedTeamPlayers) :
                        /\ r.player = SelectedTeamPlayers[k]["player_name"]
                        /\ r.event_type \in DOMAIN SelectedTeamPlayers[k]["event_breakdown"]
                        /\ r.count = SelectedTeamPlayers[k]["event_breakdown"][r.event_type]

\* C15 witness: two teams with events, the selected team has a player with
\* events of two types, the other team a player of another name, and both
\* charts got their rows
C15_Witness ==
    /\ pc = "player_breakdown_done"
    /\ Len(team_stats) = 2
    /\ session_state.team_name = Some(ch_A)
    /\ \E k \in 1..Len(SelectedTeamPlayers) :
          Cardinality(DOMAIN SelectedTeamPlayers[k]["event_breakdown"]) = 2
    /\ \E k \in 1..Len(player_stats) :
          /\ player_stats[k]["team_name"] = Some(ch_B)
          /\ \A j \in 1..Len(SelectedTeamPlayers) :
                SelectedTeamPlayers[j]["player_name"] # player_stats[k]["player_name"]
    /\ team_breakdown.exc = "" /\ player_breakdown.exc = ""
    /\ Cardinality(DOMAIN player_breakdown.rows) >= 2

\* the (team_name, player_name) groups of the player stats of a match: those of
\* the events the data source has for it, none when it has no events
MatchPlayerGroups(match_id) ==
    LET r == IF RemoteEvents(match_id) = NULL THEN Raised("KeyError")
             ELSE process_events(validate_event_data(RemoteEvents(match_id)[1]))
        stats == IF r.exc = "" THEN get_player_stats(r.df) ELSE <<>>
    IN  {<<stats[k]["team_name"], stats[k]["player_name"]>> : k \in 1..Len(stats)}

\* C16: after every run, failed or not, the selection kept in the session is
\* consistent: when match_id, team_name and player_name are all set,
\* (team_name, player_name) is a group of the player stats of the match
\* match_id (so team_name has an event in that match); competition_id and
\* season_id are those of the selected competition row; and match_id is the
\* id of a valid match whose label is the selected one.
C16_SessionSelectionConsistent ==
    pc \in {"done", "aborted"} =>
        /\ (   session_state.match_id # NULL /\ session_state.team_name # NULL
             /\ session_state.player_name # NULL) =>
                <<session_state.team_name, session_state.player_name>>
                    \in MatchPlayerGroups(session_state.match_id)
        /\ competition_season # NULL =>
                \E i \in 1..Len(competitions_df.rows) :
                    /\ Some(CompetitionLabel(competitions_df.rows[i])) = competition_season
                    /\ competitions_df.rows[i]["competition_id"] = session_state.competition_id
                    /\ competitions_df.rows[i]["season_id"] = session_state.season_id
        /\ match_label # NULL =>
                \E i \in 1..Len(valid_matches) :
                    /\ Some(MatchLabel(valid_matches[i])) = match_label
                    /\ valid_matches[i]["match_id"] = session_state.match_id

====
